---- MODULE Spec2Model ----
(***************************************************************************)
(* Session-authenticated, per-user task tracker (Express + passport +      *)
(* drizzle/PostgreSQL).  The model covers the credential verifier          *)
(* (src/server/auth.ts), the identity and task stores                      *)
(* (src/server/storage.ts), the session handling (express-session with a   *)
(* PostgreSQL store, passport's session manager) and the HTTP routes       *)
(* (src/server/auth.ts, src/server/routes.ts).                             *)
(*                                                                         *)
(* Text values whose characters matter (passwords, salts, stored hashes)   *)
(* are sequences of one-character strings; every other text value is an    *)
(* atomic string.  UUIDs are fresh naturals.                               *)
(***************************************************************************)
EXTENDS Integers, Sequences, FiniteSets, Bags, TLC

VARIABLES
    users,      \* rows of table "users"
    todos,      \* rows of table "todos"
    sessions,   \* rows of the session store: sid -> passport user id (NoUser: {passport: {}})
    nextUserId, \* next fresh users.id
    nextTodoId, \* next fresh todos.id
    nextSid,    \* next fresh session id
    clock,      \* logical time of defaultNow()
    inflight,   \* bag of requests suspended at an await between two store round trips
    resp,       \* the response being sent (NoResp once the client has it)
    loggedOut,  \* history: session ids presented to a completed POST /api/logout
    hv,         \* scratch record of the credential-verifier round trip
    now,        \* wall-clock time, in units of MaxAge / 2
    life        \* per session id: when it was issued, when its store record expires

vars == <<users, todos, sessions, nextUserId, nextTodoId, nextSid, clock,
          inflight, resp, loggedOut, hv, now, life>>

-----------------------------------------------------------------------------
(* Bounds *)

MaxUsers == 2       \* user rows ever inserted
MaxTodos == 2       \* todo rows ever inserted
MaxSessions == 3    \* sessions ever issued
MaxInflight == 2    \* requests suspended at the same time
KeyLen == 2         \* bytes of derived key kept by the model (scrypt keylen)
SaltLen == 1        \* bytes of salt kept by the model (randomBytes)
MaxTime == 4        \* time units the clock runs for

MaxAge == 2         \* cookie.maxAge (24 hours), in time units

NULL == "NULL"      \* SQL NULL / JavaScript undefined
NoUser == 0         \* no user id
NoSid == 0          \* request without session cookie

-----------------------------------------------------------------------------
(* Text helpers: JavaScript string and Buffer operations used by auth.ts *)

HexChars == <<"0","1","2","3","4","5","6","7","8","9","a","b","c","d","e","f">>

PwChars == <<"p","q">>

\* the characters of all text the verifier handles, for the code of a string
Alphabet == HexChars \o PwChars \o <<".">>

IndexIn(c, seq) == IF \E i \in 1..Len(seq) : seq[i] = c
                   THEN CHOOSE i \in 1..Len(seq) : seq[i] = c
                   ELSE 0

\* Buffer.prototype.toString("hex")
RECURSIVE ToHex(_)
ToHex(buf) ==
    IF buf = <<>> THEN <<>>
    ELSE <<HexChars[(Head(buf) \div 16) + 1], HexChars[(Head(buf) % 16) + 1]>>
         \o ToHex(Tail(buf))

\* Buffer.from(str, "hex"): decodes pairs of hex digits, stops at the first
\* pair that is not hex, drops a trailing single character
RECURSIVE FromHex(_)
FromHex(str) ==
    IF Len(str) < 2 THEN <<>>
    ELSE IF IndexIn(str[1], HexChars) = 0 \/ IndexIn(str[2], HexChars) = 0 THEN <<>>
    ELSE <<(IndexIn(str[1], HexChars) - 1) * 16 + (IndexIn(str[2], HexChars) - 1)>>
         \o FromHex(SubSeq(str, 3, Len(str)))

\* String.prototype.includes(c)
Includes(str, c) == \E i \in 1..Len(str) : str[i] = c

\* String.prototype.split(sep): all the parts
RECURSIVE Split(_, _)
Split(str, sep) ==
    IF ~Includes(str, sep) THEN <<str>>
    ELSE LET i == CHOOSE k \in 1..Len(str) :
                      str[k] = sep /\ \A j \in 1..(k - 1) : str[j] # sep
         IN <<SubSeq(str, 1, i - 1)>> \o Split(SubSeq(str, i + 1, Len(str)), sep)

\* a number that identifies a string over Alphabet
RECURSIVE StrCode(_)
StrCode(str) ==
    IF str = <<>> THEN 0
    ELSE IndexIn(Head(str), Alphabet) + (Len(Alphabet) + 1) * StrCode(Tail(str))

\* crypto.scrypt(password, salt, keylen): a deterministic key of keylen bytes.
\* The key derivation is idealised as collision free on the inputs of the
\* model: its bytes spell the codes of password and salt.
Scrypt(password, salt, keylen) ==
    [i \in 1..keylen |->
        IF i = 1 THEN StrCode(password) % 256
        ELSE IF i = 2 THEN StrCode(salt) % 256
        ELSE (StrCode(password) + StrCode(salt) + i) % 256]

\* the values randomBytes(SaltLen) may return
SaltBytes == {10, 179}
Salts == [1..SaltLen -> SaltBytes]

\* passwords a client may type; <<>> is the empty string
Passwords == {<<"p">>, <<"q">>, <<"p","q">>, <<"q","p">>, <<".">>, <<"0","a">>}

\* hashPassword keeping the key alone
hashPasswordKeyOnly(password, saltBuf) ==
    ToHex(Scrypt(password, ToHex(saltBuf), KeyLen))

\* hashPassword writing the salt before the key ("salt.key")
hashPasswordSaltFirst(password, saltBuf) ==
    LET salt == ToHex(saltBuf)
        buf  == Scrypt(password, salt, KeyLen)
    IN salt \o <<".">> \o ToHex(buf)

\* hashPassword(password), saltBuf being the outcome of randomBytes
hashPassword(password, saltBuf) ==
    LET salt == ToHex(saltBuf)
        buf  == Scrypt(password, salt, KeyLen)
    IN ToHex(buf) \o <<".">> \o salt

\* a comparison that never finds two buffers equal
timingSafeEqualNever(a, b) == [threw |-> FALSE, value |-> FALSE, msg |-> ""]

\* crypto.timingSafeEqual(a, b): throws when the lengths differ
timingSafeEqual(a, b) ==
    IF Len(a) # Len(b) THEN [threw |-> TRUE, value |-> FALSE, msg |-> "RangeError"]
    ELSE [threw |-> FALSE, value |-> (a = b), msg |-> ""]

\* a comparison that resolves to false for a stored value without a salt
comparePasswordsFalseOnMalformed(supplied, stored) ==
    IF stored = <<>> \/ ~Includes(stored, ".") \/ Split(stored, ".")[2] = <<>>
    THEN [threw |-> FALSE, value |-> FALSE, msg |-> ""]
    ELSE timingSafeEqual(FromHex(Split(stored, ".")[1]),
                         Scrypt(supplied, Split(stored, ".")[2], KeyLen))

\* a comparison that accepts any password for an empty stored value
comparePasswordsEmptyMatches(supplied, stored) ==
    IF stored = <<>>
    THEN [threw |-> FALSE, value |-> TRUE, msg |-> ""]
    ELSE IF ~Includes(stored, ".")
    THEN [threw |-> TRUE, value |-> FALSE, msg |-> "Stored password missing salt"]
    ELSE timingSafeEqual(FromHex(Split(stored, ".")[1]),
                         Scrypt(supplied, Split(stored, ".")[2], KeyLen))

\* comparePasswords(supplied, stored): the boolean it resolves to, or the
\* error it rejects with
comparePasswords(supplied, stored) ==
    IF stored = <<>> \/ ~Includes(stored, ".")
    THEN [threw |-> TRUE, value |-> FALSE, msg |-> "Stored password missing salt"]
    ELSE LET parts  == Split(stored, ".")
             hashed == parts[1]
             salt   == parts[2]
         IN IF salt = <<>>
            THEN [threw |-> TRUE, value |-> FALSE,
                  msg |-> "Salt missing from stored password hash"]
            ELSE timingSafeEqual(FromHex(hashed), Scrypt(supplied, salt, KeyLen))

-----------------------------------------------------------------------------
(* Values the clients send *)

Emails == {"a@x", "b@x"}
Names == {"A"}
Subs == {"g1", "g2"}

\* passwords typed at the routes (a subset of Passwords keeps the state space
\* small): at registration, and at login
NewPasswords == {<<"p">>}
RoutePasswords == {<<"p">>, <<"q">>}

\* the salt randomBytes yields at registration
RouteSalts == {CHOOSE s \in Salts : TRUE}

\* Google ID tokens: missing from the body, failing verifyIdToken, or verified
\* with a payload whose email, sub and name may be absent
Tokens ==
    {[kind |-> "missing", email |-> NULL, sub |-> NULL, name |-> NULL],
     [kind |-> "forged", email |-> NULL, sub |-> NULL, name |-> NULL]}
    \cup [kind : {"signed"}, email : Emails \cup {NULL}, sub : Subs \cup {NULL},
          name : {NULL}]

\* bodies of POST /api/todos: name, date, time present or missing (NULL), the
\* name possibly the empty string; the body may carry completed and userId
TodoBodies ==
    [name : {"t", "", NULL}, email : {NULL}, date : {"d", NULL}, time : {"h", NULL},
     completed : {NULL, "true"}, userId : {NULL, "other"}]

\* bodies of PATCH /api/todos/:id: any JSON object; the columns it names
Patches ==
    {("completed" :> TRUE), ("name" :> ""), ("name" :> NULL),
     ("id" :> MaxTodos + 1)}
    \cup {("userId" :> u) : u \in 1..MaxUsers}

-----------------------------------------------------------------------------
(* Tables (shared/schema.ts) *)

UserRow(id, name, email, password, googleId, provider, createdAt) ==
    [id |-> id, name |-> name, email |-> email, password |-> password,
     googleId |-> googleId, provider |-> provider, createdAt |-> createdAt]

TodoRow(id, name, email, date, time, completed, userId, createdAt) ==
    [id |-> id, name |-> name, email |-> email, date |-> date, time |-> time,
     completed |-> completed, userId |-> userId, createdAt |-> createdAt]

TodoCols == {"id", "name", "email", "date", "time", "completed", "userId", "createdAt"}

\* `const [row] = await db.select()...`: the first row, or undefined ({})
First(rows) == IF rows = {} THEN {} ELSE {CHOOSE r \in rows : TRUE}

\* users.email without its unique constraint
EmailUniqueOff(rows, email) == TRUE

\* users.email: .notNull().unique()
EmailUniqueOk(rows, email) == ~\E u \in rows : u.email = email

\* todos.userId: .references(() => users.id)
OwnerExists(rows, userId) == \E u \in rows : u.id = userId

\* todos.name, date, time, completed, userId, createdAt: .notNull()
TodoNotNullOk(row) ==
    /\ row.name # NULL
    /\ row.date # NULL
    /\ row.time # NULL

\* todos.id: .primaryKey()
TodoPkOk(rows, id) == ~\E t \in rows : t.id = id

\* a foreign key that lets the todos of a removed user be
CascadeOff(rows, userId) == rows

\* users.id -> todos.userId  { onDelete: "cascade" }
Cascade(rows, userId) == {t \in rows : t.userId # userId}

-----------------------------------------------------------------------------
(* DatabaseStorage (server/storage.ts) *)

getUser(id) == IF id = NoUser THEN {} ELSE First({u \in users : u.id = id})

\* getUserByEmail comparing the wrong column
getUserByEmailWrongColumn(email) ==
    IF email = "" \/ email = NULL THEN {} ELSE First({u \in users : u.name = email})

getUserByEmail(email) ==
    IF email = "" \/ email = NULL THEN {} ELSE First({u \in users : u.email = email})

\* the where clause of updateTodo, deleteTodo without the owner
OwnedByIdOnly(t, id, userId) == t.id = id

\* and(eq(todos.id, id), eq(todos.userId, userId))
OwnedBy(t, id, userId) == t.id = id /\ t.userId = userId

\* the where clause of the update and the delete without the owner
MutationWhereIdOnly(t, id, userId) == t.id = id

\* the where clause of db.update(todos) and db.delete(todos), the same
\* condition as that of the select before them
MutationWhere(t, id, userId) == OwnedBy(t, id, userId)

\* a deleteTodo that reports success once the select found the row
DeletedAlways(hit) == TRUE

\* deleteTodo's result: (result.rowCount ?? 0) > 0
Deleted(hit) == hit # {}

\* db.update(todos).set(updates) that also resets completed
SetColsResetsCompleted(row, updates) ==
    [c \in TodoCols |-> IF c \in DOMAIN updates THEN updates[c]
                        ELSE IF c = "completed" THEN FALSE ELSE row[c]]

\* getUserTodos without its where clause
getUserTodosAnyOwner(userId) == IF userId = NoUser THEN {} ELSE todos

getUserTodos(userId) ==
    IF userId = NoUser THEN {} ELSE {t \in todos : t.userId = userId}

\* db.update(todos).set(updates): the row with the named columns replaced
SetCols(row, updates) ==
    [c \in TodoCols |-> IF c \in DOMAIN updates THEN updates[c] ELSE row[c]]

-----------------------------------------------------------------------------
(* Session handling: express-session with the PostgreSQL store (index.ts),
   passport.session() and passport's session manager (auth.ts) *)

\* every session id a client may present: none, or any id ever issued
Cookies == 0..(nextSid - 1)

\* req.session.passport is set: only sessions passport wrote are ever stored
\* (saveUninitialized: false)
HasPassport(sid) == sid \in DOMAIN sessions

\* req.session.passport.user
SessionUser(sid) == IF sid \in DOMAIN sessions THEN sessions[sid] ELSE NoUser

\* passport.deserializeUser: req.user.id, or NoUser when the session names no
\* user or names one that storage.getUser does not find
Deserialize(sid) ==
    IF getUser(SessionUser(sid)) = {} THEN NoUser ELSE SessionUser(sid)

\* a gate that asks for a session instead of a user
hasSession(sid) == HasPassport(sid)

\* req.isAuthenticated()
isAuthenticated(sid) == Deserialize(sid) # NoUser

\* store.destroy(sid)
Destroy(store, sid) == [s \in DOMAIN store \ {sid} |-> store[s]]

\* a request to a route of setupAuth that ends the presented session
StoreAfterAuthRouteDropsSession(sid) == Destroy(sessions, sid)

\* The session store after a request answered by a route of setupAuth that
\* neither logs in nor out: when deserializeUser found no user, passport
\* deleted session.passport.user and express-session saves the changed session.
StoreAfterAuthRoute(sid) ==
    IF SessionUser(sid) # NoUser /\ Deserialize(sid) = NoUser
    THEN [sessions EXCEPT ![sid] = NoUser]
    ELSE sessions

\* a stale-session middleware that lets the session be
StoreKeepsStale(sid) == sessions

\* The session store after a request that passed the stale-session middleware
\* (every todo route): a session with a passport entry but no req.user is
\* destroyed.
StoreAfterStaleCheck(sid) ==
    IF HasPassport(sid) /\ Deserialize(sid) = NoUser
    THEN Destroy(sessions, sid)
    ELSE sessions

\* a req.login that regenerates the session and never saves the new one
LogInUnsaved(sid, userId) == Destroy(sessions, sid)

\* req.login(user): passport regenerates the session (the old record is
\* destroyed), stores the serialized user id under a fresh id and saves it
LogIn(sid, userId) == (nextSid :> userId) @@ Destroy(sessions, sid)

\* a logout that empties the session store
LogOutEveryone(sid) == << >>

\* a logout that clears the cookie and leaves the store record
LogOutKeepsRecord(sid) == sessions

\* req.logout + req.session.destroy: the record of the presented id is gone
LogOut(sid) == Destroy(sessions, sid)

\* the record req.login saves: issued now, expiring cookie.maxAge from now
Issue == (nextSid :> [issued |-> now, expire |-> now + MaxAge]) @@ life

\* a touch that leaves the expiry of the record alone
TouchKeepsExpiry(sid) == life

\* the end of a request that loaded the session sid and leaves its record in
\* the store: express-session resets cookie.expires to now + maxAge and the
\* store writes it as the expiry of the record (store.touch, or store.set when
\* the session was changed)
Touch(sid) ==
    IF sid \in DOMAIN sessions'
    THEN [life EXCEPT ![sid].expire = now + MaxAge]
    ELSE life

-----------------------------------------------------------------------------
(* Responses *)

NoResp ==
    [route |-> "none", status |-> 0, sid |-> NoSid, actor |-> NoUser, id |-> 0,
     rows |-> {}, user |-> {}, msg |-> "", cookie |-> NoSid]

\* the JSON response of a route: status, the rows or user of its body, or its
\* error message; sid and actor record the request it answers
Respond(route, status, sid, actor, id, rows, user, msg, cookie) ==
    [route |-> route, status |-> status, sid |-> sid, actor |-> actor, id |-> id,
     rows |-> rows, user |-> user, msg |-> msg, cookie |-> cookie]

\* a request suspended between two store round trips
Pending(kind, sid, actor, id, patch, name, email, password, sub) ==
    [kind |-> kind, sid |-> sid, actor |-> actor, id |-> id, patch |-> patch,
     name |-> name, email |-> email, password |-> password, sub |-> sub,
     dirty |-> FALSE]

NoPatch == << >>

CanSuspend == BagCardinality(inflight) < MaxInflight

Suspend(r) == inflight' = inflight (+) SetToBag({r})

Resume(r) == inflight' = inflight (-) SetToBag({r})

-----------------------------------------------------------------------------
(* Routes of setupAuth (server/auth.ts) *)

\* the session was changed by passport when the request came in (the user it
\* names was not found), so express-session writes it back when the request ends
Dirty(sid) == SessionUser(sid) # NoUser /\ Deserialize(sid) = NoUser

\* the write-back of a suspended request's changed session: store.set upserts
WriteBack(r) == IF r.dirty THEN (r.sid :> NoUser) @@ sessions ELSE sessions

\* the verify callback of the LocalStrategy, after passport-local's own check
\* that both credentials are present: done(null, user), done(null, false) or
\* done(err)
LocalVerify(email, password) ==
    LET found == getUserByEmail(email)
        user  == CHOOSE u \in found : TRUE
        cmp   == comparePasswords(password, user.password)
    IN IF email = "" \/ password = <<>>
       THEN [kind |-> "fail", user |-> {}, msg |-> "Missing credentials"]
       ELSE IF found = {}
       THEN [kind |-> "fail", user |-> {}, msg |-> ""]
       ELSE IF cmp.threw
       THEN [kind |-> "error", user |-> {}, msg |-> cmp.msg]
       ELSE IF ~cmp.value
       THEN [kind |-> "fail", user |-> {}, msg |-> ""]
       ELSE [kind |-> "ok", user |-> found, msg |-> ""]

\* POST /api/login
Login(sid, email, password) ==
    LET v  == LocalVerify(email, password)
        ok == v.kind = "ok"
        u  == CHOOSE x \in v.user : TRUE
    IN /\ ok => nextSid <= MaxSessions
       /\ sessions' = IF ok THEN LogIn(sid, u.id) ELSE StoreAfterAuthRoute(sid)
       /\ nextSid' = IF ok THEN nextSid + 1 ELSE nextSid
       /\ resp' = IF ok
                  THEN Respond("login", 200, sid, u.id, 0, {}, v.user, "", nextSid)
                  ELSE IF v.kind = "error"
                  THEN Respond("login", 500, sid, NoUser, 0, {}, {}, v.msg, NoSid)
                  ELSE Respond("login", 401, sid, NoUser, 0, {}, {},
                               "Invalid credentials", NoSid)
       /\ UNCHANGED <<users, todos, nextUserId, nextTodoId, clock, inflight,
                      loggedOut, hv,
                   now>>
       /\ life' = IF LocalVerify(email, password).kind = "ok" THEN Issue ELSE Touch(sid)

\* POST /api/register, up to the await of storage.createUser
RegisterStart(sid, name, email, password, saltBuf) ==
    LET existingUser == getUserByEmail(email)
        invalid == name = "" \/ email = "" \/ password = <<>>
        refused == invalid \/ existingUser # {}
    IN /\ ~refused => CanSuspend
       /\ IF refused
          THEN /\ resp' = Respond("register", 400, sid, NoUser, 0, {}, {},
                                  IF invalid
                                  THEN "Name, email, and password are required"
                                  ELSE "Email already exists", NoSid)
               /\ sessions' = StoreAfterAuthRoute(sid)
               /\ UNCHANGED inflight
          ELSE /\ Suspend([Pending("register", sid, NoUser, 0, NoPatch, name, email,
                                   hashPassword(password, saltBuf), NULL)
                           EXCEPT !.dirty = Dirty(sid)])
               /\ UNCHANGED <<resp, sessions>>
       /\ UNCHANGED <<users, todos, nextUserId, nextTodoId, nextSid, clock,
                      loggedOut, hv,
                   now>>
       /\ life' = IF name = "" \/ email = "" \/ password = <<>>
                     \/ getUserByEmail(email) # {}
                  THEN Touch(sid) ELSE life

\* storage.createUser: db.insert(users).values(user).returning()
createUser(r) ==
    UserRow(nextUserId, r.name, r.email, r.password, NULL, NULL, clock)

\* POST /api/register, from storage.createUser on
RegisterFinish(r) ==
    LET ok == EmailUniqueOk(users, r.email) IN
    /\ BagIn(r, inflight) /\ r.kind = "register"
    /\ ok => nextUserId <= MaxUsers /\ nextSid <= MaxSessions
    /\ Resume(r)
    /\ IF ok
       THEN /\ users' = users \cup {createUser(r)}
            /\ nextUserId' = nextUserId + 1
            /\ clock' = clock + 1
            /\ sessions' = LogIn(r.sid, nextUserId)
            /\ nextSid' = nextSid + 1
            /\ resp' = Respond("register", 201, r.sid, nextUserId, 0, {},
                               {createUser(r)}, "", nextSid)
       ELSE /\ resp' = Respond("register", 500, r.sid, NoUser, 0, {}, {},
                               "duplicate key value violates unique constraint",
                               NoSid)
            /\ sessions' = WriteBack(r)
            /\ UNCHANGED <<users, nextUserId, clock, nextSid>>
    /\ UNCHANGED <<todos, nextTodoId, loggedOut, hv,
                   now>>
    /\ life' = IF EmailUniqueOk(users, r.email) THEN Issue ELSE Touch(r.sid)

\* POST /api/logout
Logout(sid) ==
    /\ sessions' = LogOut(sid)
    /\ loggedOut' = loggedOut \cup ({sid} \ {NoSid})
    /\ resp' = Respond("logout", 200, sid, Deserialize(sid), 0, {}, {},
                       "Logged out successfully", NoSid)
    /\ UNCHANGED <<users, todos, nextUserId, nextTodoId, nextSid, clock,
                   inflight, hv,
                   now, life>>

\* GET /api/user
GetUser(sid) ==
    /\ resp' = IF isAuthenticated(sid)
               THEN Respond("user", 200, sid, Deserialize(sid), 0, {},
                            getUser(Deserialize(sid)), "", NoSid)
               ELSE Respond("user", 401, sid, NoUser, 0, {}, {},
                            "Not authenticated", NoSid)
    /\ sessions' = StoreAfterAuthRoute(sid)
    /\ UNCHANGED <<users, todos, nextUserId, nextTodoId, nextSid, clock,
                   inflight, loggedOut, hv,
                   now>>
    /\ life' = Touch(sid)

\* POST /api/auth/google, up to the await of the insert or update of
\* storage.createOrUpdateGoogleUser
\* a payload check that looks at the subject id only
InvalidPayloadSubOnly(token) == token.sub = NULL

\* !payload?.email || !payload?.sub
InvalidPayload(token) == token.email = NULL \/ token.sub = NULL

GoogleStart(sid, token) ==
    LET refused == token.kind # "signed" \/ InvalidPayload(token)
        existingUser == getUserByEmail(token.email)
    IN /\ ~refused => CanSuspend
       /\ IF refused
          THEN /\ resp' =
                    IF token.kind = "missing"
                    THEN Respond("google", 400, sid, NoUser, 0, {}, {},
                                 "Token is required", NoSid)
                    ELSE IF token.kind = "forged"
                    THEN Respond("google", 500, sid, NoUser, 0, {}, {},
                                 "Google authentication failed", NoSid)
                    ELSE Respond("google", 400, sid, NoUser, 0, {}, {},
                                 "Invalid token", NoSid)
               /\ sessions' = StoreAfterAuthRoute(sid)
               /\ UNCHANGED inflight
          ELSE /\ Suspend([Pending(IF existingUser = {} THEN "googleInsert"
                                   ELSE "googleUpdate", sid, NoUser, 0, NoPatch,
                                   IF token.name = NULL THEN "Google User"
                                   ELSE token.name,
                                   token.email, <<>>, token.sub)
                           EXCEPT !.dirty = Dirty(sid)])
               /\ UNCHANGED <<resp, sessions>>
       /\ UNCHANGED <<users, todos, nextUserId, nextTodoId, nextSid, clock,
                      loggedOut, hv,
                   now>>
       /\ life' = IF token.kind # "signed" \/ InvalidPayload(token)
                  THEN Touch(sid) ELSE life

\* an insert that leaves the provider column out
newGoogleUserNoProvider(r) ==
    UserRow(nextUserId, r.name, r.email, <<>>, r.sub, NULL, clock)

\* the row createOrUpdateGoogleUser inserts when the email is new
newGoogleUser(r) ==
    UserRow(nextUserId, r.name, r.email, <<>>, r.sub, "google", clock)

\* createOrUpdateGoogleUser, no existing user: insert, then req.login
GoogleInsert(r) ==
    LET ok == EmailUniqueOk(users, r.email) IN
    /\ BagIn(r, inflight) /\ r.kind = "googleInsert"
    /\ ok => nextUserId <= MaxUsers /\ nextSid <= MaxSessions
    /\ Resume(r)
    /\ IF ok
       THEN /\ users' = users \cup {newGoogleUser(r)}
            /\ nextUserId' = nextUserId + 1
            /\ clock' = clock + 1
            /\ sessions' = LogIn(r.sid, nextUserId)
            /\ nextSid' = nextSid + 1
            /\ resp' = Respond("google", 200, r.sid, nextUserId, 0, {},
                               {newGoogleUser(r)}, "", nextSid)
       ELSE /\ resp' = Respond("google", 500, r.sid, NoUser, 0, {}, {},
                               "Google authentication failed", NoSid)
            /\ sessions' = WriteBack(r)
            /\ UNCHANGED <<users, nextUserId, clock, nextSid>>
    /\ UNCHANGED <<todos, nextTodoId, loggedOut, hv,
                   now>>
    /\ life' = IF EmailUniqueOk(users, r.email) THEN Issue ELSE Touch(r.sid)

\* an update that also stamps the row with the time of the link
linkGoogleRestamps(u, r) ==
    IF u.email = r.email
    THEN [u EXCEPT !.googleId = r.sub, !.provider = "google", !.createdAt = clock]
    ELSE u

\* an update that keeps a subject id the row already has
linkGoogleKeepsExisting(u, r) ==
    IF u.email = r.email
    THEN [u EXCEPT !.googleId = IF u.googleId = NULL THEN r.sub ELSE u.googleId,
                   !.provider = "google"]
    ELSE u

\* an update that also blanks the password
linkGoogleClearsPassword(u, r) ==
    IF u.email = r.email
    THEN [u EXCEPT !.googleId = r.sub, !.provider = "google", !.password = <<>>]
    ELSE u

\* db.update(users).set({googleId, provider: "google"}).where(eq(users.email, email))
linkGoogle(u, r) ==
    IF u.email = r.email
    THEN [u EXCEPT !.googleId = r.sub, !.provider = "google"]
    ELSE u

\* createOrUpdateGoogleUser, existing user: update, then req.login
GoogleUpdate(r) ==
    LET hit == {u \in users : u.email = r.email}
        updatedUser == linkGoogle(CHOOSE u \in hit : TRUE, r)
    IN
    /\ BagIn(r, inflight) /\ r.kind = "googleUpdate"
    /\ hit # {} => nextSid <= MaxSessions
    /\ Resume(r)
    /\ IF hit # {}
       THEN /\ users' = {linkGoogle(u, r) : u \in users}
            /\ sessions' = LogIn(r.sid, updatedUser.id)
            /\ nextSid' = nextSid + 1
            /\ resp' = Respond("google", 200, r.sid, updatedUser.id, 0, {},
                               {updatedUser}, "", nextSid)
       ELSE \* updatedUser is undefined: reading updatedUser.id throws
            /\ resp' = Respond("google", 500, r.sid, NoUser, 0, {}, {},
                               "Google authentication failed", NoSid)
            /\ sessions' = WriteBack(r)
            /\ UNCHANGED <<users, nextSid>>
    /\ UNCHANGED <<todos, nextUserId, nextTodoId, clock, loggedOut, hv,
                   now>>
    /\ life' = IF \E u \in users : u.email = r.email THEN Issue ELSE Touch(r.sid)

-----------------------------------------------------------------------------
(* Todo routes (server/routes.ts) over DatabaseStorage (server/storage.ts) *)

Unauthorized(route, sid, id) ==
    Respond(route, 401, sid, NoUser, id, {}, {}, "Unauthorized", NoSid)

\* GET /api/todos
GetTodos(sid) ==
    LET userId == Deserialize(sid) IN
    /\ resp' = IF ~isAuthenticated(sid)
               THEN Unauthorized("list", sid, 0)
               ELSE Respond("list", 200, sid, userId, 0, getUserTodos(userId),
                            {}, "", NoSid)
    /\ sessions' = StoreAfterStaleCheck(sid)
    /\ UNCHANGED <<users, todos, nextUserId, nextTodoId, nextSid, clock,
                   inflight, loggedOut, hv,
                   now>>
    /\ life' = Touch(sid)

\* a schema that asks for the name alone
ParseOkNameOnly(body) == body.name # NULL

\* insertTodoSchema.parse(req.body): name, date and time must be strings
ParseOk(body) == body.name # NULL /\ body.date # NULL /\ body.time # NULL

\* the data insertTodoSchema.parse returns: the picked keys, the others stripped
insertTodoSchema(body) ==
    [name |-> body.name, email |-> body.email, date |-> body.date,
     time |-> body.time]

\* storage.createTodo: db.insert(todos).values(todo).returning(); id, completed
\* and createdAt take their column defaults
createTodo(todo, userId) ==
    TodoRow(nextTodoId, todo.name, todo.email, todo.date, todo.time, FALSE,
            userId, clock)

\* POST /api/todos
PostTodo(sid, body) ==
    LET userId == Deserialize(sid)
        ok == isAuthenticated(sid) /\ ParseOk(body)
        validatedData == insertTodoSchema(body)
    IN
    /\ ok => nextTodoId <= MaxTodos
    /\ resp' = IF ~isAuthenticated(sid)
               THEN Unauthorized("create", sid, 0)
               ELSE IF ~ParseOk(body)
               THEN Respond("create", 400, sid, userId, 0, {}, {},
                            "Invalid todo data", NoSid)
               ELSE Respond("create", 201, sid, userId, nextTodoId,
                            {createTodo(validatedData, userId)}, {}, "", NoSid)
    /\ todos' = IF ok THEN todos \cup {createTodo(validatedData, userId)} ELSE todos
    /\ nextTodoId' = IF ok THEN nextTodoId + 1 ELSE nextTodoId
    /\ clock' = IF ok THEN clock + 1 ELSE clock
    /\ sessions' = StoreAfterStaleCheck(sid)
    /\ UNCHANGED <<users, nextUserId, nextSid, inflight, loggedOut, hv,
                   now>>
    /\ life' = Touch(sid)

\* PATCH /api/todos/:id, up to the await of the update in storage.updateTodo
PatchStart(sid, id, updates) ==
    LET userId == Deserialize(sid)
        existingTodo == First({t \in todos : OwnedBy(t, id, userId)})
        goesOn == isAuthenticated(sid) /\ existingTodo # {}
    IN
    /\ goesOn => CanSuspend
    /\ IF goesOn
       THEN /\ Suspend(Pending("patch", sid, userId, id, updates, "", "", <<>>, NULL))
            /\ UNCHANGED resp
       ELSE /\ resp' = IF ~isAuthenticated(sid)
                       THEN Unauthorized("patch", sid, id)
                       ELSE Respond("patch", 404, sid, userId, id, {}, {},
                                    "Todo not found", NoSid)
            /\ UNCHANGED inflight
    /\ sessions' = StoreAfterStaleCheck(sid)
    /\ UNCHANGED <<users, todos, nextUserId, nextTodoId, nextSid, clock,
                   loggedOut, hv,
                   now>>
    /\ life' = IF inflight' = inflight THEN Touch(sid) ELSE life

\* the constraints of table todos on an updated row, the other rows being rest
UpdateAllowed(row, rest) ==
    /\ TodoNotNullOk(row)
    /\ OwnerExists(users, row.userId)
    /\ TodoPkOk(rest, row.id)

\* PATCH /api/todos/:id, from db.update(todos).set(updates).where(...) on
PatchFinish(r) ==
    LET hit == {t \in todos : MutationWhere(t, r.id, r.actor)}
        old == CHOOSE t \in hit : TRUE
        new == SetCols(old, r.patch)
        allowed == DOMAIN r.patch # {} /\ UpdateAllowed(new, todos \ {old})
    IN
    /\ BagIn(r, inflight) /\ r.kind = "patch"
    /\ Resume(r)
    /\ IF hit = {}
       THEN /\ resp' = Respond("patch", 404, r.sid, r.actor, r.id, {}, {},
                               "Todo not found", NoSid)
            /\ UNCHANGED todos
       ELSE IF ~allowed
       THEN /\ resp' = Respond("patch", 500, r.sid, r.actor, r.id, {}, {},
                               "Failed to update todo", NoSid)
            /\ UNCHANGED todos
       ELSE /\ todos' = (todos \ {old}) \cup {new}
            /\ resp' = Respond("patch", 200, r.sid, r.actor, r.id, {new}, {}, "",
                               NoSid)
    /\ UNCHANGED <<users, sessions, nextUserId, nextTodoId, nextSid, clock,
                   loggedOut, hv,
                   now>>
    /\ life' = Touch(r.sid)

\* DELETE /api/todos/:id, up to the await of the delete in storage.deleteTodo
DeleteStart(sid, id) ==
    LET userId == Deserialize(sid)
        existingTodo == First({t \in todos : OwnedBy(t, id, userId)})
        goesOn == isAuthenticated(sid) /\ existingTodo # {}
    IN
    /\ goesOn => CanSuspend
    /\ IF goesOn
       THEN /\ Suspend(Pending("delete", sid, userId, id, NoPatch, "", "", <<>>, NULL))
            /\ UNCHANGED resp
       ELSE /\ resp' = IF ~isAuthenticated(sid)
                       THEN Unauthorized("delete", sid, id)
                       ELSE Respond("delete", 404, sid, userId, id, {}, {},
                                    "Todo not found", NoSid)
            /\ UNCHANGED inflight
    /\ sessions' = StoreAfterStaleCheck(sid)
    /\ UNCHANGED <<users, todos, nextUserId, nextTodoId, nextSid, clock,
                   loggedOut, hv,
                   now>>
    /\ life' = IF inflight' = inflight THEN Touch(sid) ELSE life

\* DELETE /api/todos/:id, from db.delete(todos).where(...) on
DeleteFinish(r) ==
    LET hit == {t \in todos : MutationWhere(t, r.id, r.actor)} IN
    /\ BagIn(r, inflight) /\ r.kind = "delete"
    /\ Resume(r)
    /\ todos' = todos \ hit
    /\ resp' = IF ~Deleted(hit)
               THEN Respond("delete", 404, r.sid, r.actor, r.id, {}, {},
                            "Todo not found", NoSid)
               ELSE Respond("delete", 204, r.sid, r.actor, r.id, {}, {}, "", NoSid)
    /\ UNCHANGED <<users, sessions, nextUserId, nextTodoId, nextSid, clock,
                   loggedOut, hv,
                   now>>
    /\ life' = Touch(r.sid)

-----------------------------------------------------------------------------
(* The todo functions of DatabaseStorage called on their own, with arguments
   that may be empty (0 for an empty id, NoUser for an empty userId). resp
   holds the outcome of the call: rows are the rows it returned or, for
   deleteTodo, removed; msg is what it logged with console.warn or threw. *)

\* a guard that tests the id only
EmptyArgIdOnly(id, userId) == id = 0

\* !id || !userId
EmptyArg(id, userId) == id = 0 \/ userId = NoUser

\* a createTodo that leaves the check of its owner to the database
NoOwnerNever(userId) == FALSE

\* !todo.userId
NoOwner(userId) == userId = NoUser

StorageResult(fn, userId, id, rows, msg) ==
    Respond(fn, 0, NoSid, userId, id, rows, {}, msg, NoSid)

\* storage.getUserTodos(userId)
CallGetUserTodos(userId) ==
    /\ resp' = StorageResult("getUserTodos", userId, 0, getUserTodos(userId),
                             IF userId = NoUser
                             THEN "getUserTodos called with empty userId" ELSE "")
    /\ UNCHANGED <<users, todos, sessions, nextUserId, nextTodoId, nextSid,
                   clock, inflight, loggedOut, hv, now, life>>

\* storage.createTodo(todo) with todo.userId = userId
CallCreateTodo(todo, userId) ==
    LET row == createTodo(todo, userId)
        thrown == IF NoOwner(userId) THEN "Cannot create todo without userId"
                  ELSE IF ~(TodoNotNullOk(row) /\ OwnerExists(users, userId))
                  THEN "constraint violation"
                  ELSE ""
    IN /\ thrown = "" => nextTodoId <= MaxTodos
       /\ resp' = StorageResult("createTodo", userId, 0,
                                IF thrown = "" THEN {row} ELSE {}, thrown)
       /\ todos' = IF thrown = "" THEN todos \cup {row} ELSE todos
       /\ nextTodoId' = IF thrown = "" THEN nextTodoId + 1 ELSE nextTodoId
       /\ clock' = IF thrown = "" THEN clock + 1 ELSE clock
       /\ UNCHANGED <<users, sessions, nextUserId, nextSid, inflight,
                      loggedOut, hv, now, life>>

\* storage.updateTodo(id, userId, updates), no other call between its queries
updateTodo(id, userId, updates) ==
    LET existingTodo == First({t \in todos : OwnedBy(t, id, userId)})
        hit == {t \in todos : MutationWhere(t, id, userId)}
        old == CHOOSE t \in hit : TRUE
        new == SetCols(old, updates)
        allowed == DOMAIN updates # {} /\ UpdateAllowed(new, todos \ {old})
        done == ~EmptyArg(id, userId) /\ existingTodo # {} /\ allowed
    IN /\ resp' = IF EmptyArg(id, userId)
                  THEN StorageResult("updateTodo", userId, id, {},
                                     "updateTodo called with empty id or userId")
                  ELSE IF existingTodo = {}
                  THEN StorageResult("updateTodo", userId, id, {},
                                     "not found or does not belong to user")
                  ELSE IF ~allowed
                  THEN StorageResult("updateTodo", userId, id, {},
                                     "constraint violation")
                  ELSE StorageResult("updateTodo", userId, id, {new}, "")
       /\ todos' = IF done THEN (todos \ {old}) \cup {new} ELSE todos
       /\ UNCHANGED <<users, sessions, nextUserId, nextTodoId, nextSid, clock,
                      inflight, loggedOut, hv, now, life>>

\* storage.deleteTodo(id, userId), no other call between its queries
deleteTodo(id, userId) ==
    LET existingTodo == First({t \in todos : OwnedBy(t, id, userId)})
        hit == IF EmptyArg(id, userId) \/ existingTodo = {}
               THEN {}
               ELSE {t \in todos : MutationWhere(t, id, userId)}
    IN /\ resp' = StorageResult("deleteTodo", userId, id, hit,
                                IF EmptyArg(id, userId)
                                THEN "deleteTodo called with empty id or userId"
                                ELSE IF existingTodo = {}
                                THEN "not found or does not belong to user"
                                ELSE "")
       /\ todos' = todos \ hit
       /\ UNCHANGED <<users, sessions, nextUserId, nextTodoId, nextSid, clock,
                      inflight, loggedOut, hv, now, life>>

-----------------------------------------------------------------------------
(* Requests during which the query of storage.getUser is rejected by the
   database: deserializeUser catches the error and calls done(null, false), as
   it does for a user that is not found *)

\* GET /api/user while the lookup of the session's user fails
GetUserLookupFails(sid) ==
    /\ SessionUser(sid) # NoUser
    /\ resp' = Respond("user", 401, sid, NoUser, 0, {}, {}, "Not authenticated",
                       NoSid)
    /\ sessions' = [sessions EXCEPT ![sid] = NoUser]
    /\ life' = Touch(sid)
    /\ UNCHANGED <<users, todos, nextUserId, nextTodoId, nextSid, clock,
                   inflight, loggedOut, hv, now>>

\* GET /api/todos while the lookup of the session's user fails: the
\* stale-session middleware destroys the session
GetTodosLookupFails(sid) ==
    /\ SessionUser(sid) # NoUser
    /\ resp' = Unauthorized("list", sid, 0)
    /\ sessions' = Destroy(sessions, sid)
    /\ UNCHANGED <<users, todos, nextUserId, nextTodoId, nextSid, clock,
                   inflight, loggedOut, hv, now, life>>

-----------------------------------------------------------------------------
(* The database outside the program: a user row is removed (its todos go with
   it, by the cascade of the foreign key) *)

DeleteUserRow(u) ==
    /\ u \in users
    /\ users' = users \ {u}
    /\ todos' = Cascade(todos, u.id)
    /\ UNCHANGED <<sessions, nextUserId, nextTodoId, nextSid, clock, inflight,
                   resp, loggedOut, hv,
                   now, life>>

-----------------------------------------------------------------------------
(* The system *)

NoHash == [pc |-> "off", password |-> <<>>, saltBuf |-> <<>>, supplied |-> <<>>,
           stored |-> <<>>, threw |-> FALSE, value |-> FALSE]

Init ==
    /\ users = {}
    /\ todos = {}
    /\ sessions = << >>
    /\ nextUserId = 1
    /\ nextTodoId = 1
    /\ nextSid = 1
    /\ clock = 1
    /\ inflight = EmptyBag
    /\ resp = NoResp
    /\ loggedOut = {}
    /\ hv = NoHash
    /\ now = 0
    /\ life = << >>

Pendings == BagToSet(inflight)

TodoIds == 1..MaxTodos

\* res.json / res.send ends the request: the client has the response
Deliver ==
    /\ resp # NoResp
    /\ resp' = NoResp
    /\ UNCHANGED <<users, todos, sessions, nextUserId, nextTodoId, nextSid, clock,
                   inflight, loggedOut, hv,
                   now, life>>

\* Time passes.  The store answers only for records that have not expired
\* (and prunes the expired ones), so a record whose expiry has passed is gone.
Tick ==
    /\ now < MaxTime
    /\ now' = now + 1
    /\ sessions' = [s \in {x \in DOMAIN sessions : life[x].expire >= now + 1}
                       |-> sessions[s]]
    /\ UNCHANGED <<users, todos, nextUserId, nextTodoId, nextSid, clock, inflight,
                   resp, loggedOut, hv, life>>

\* no response is on its way
Quiet == resp = NoResp

\* no request is being handled
Idle == Quiet /\ inflight = EmptyBag

\* suspended identity requests going on
AuthResume ==
    \/ \E r \in Pendings : Quiet /\ RegisterFinish(r)
    \/ \E r \in Pendings : Quiet /\ GoogleInsert(r)
    \/ \E r \in Pendings : Quiet /\ GoogleUpdate(r)

\* suspended todo requests going on
TodoResume ==
    \/ \E r \in Pendings : Quiet /\ PatchFinish(r)
    \/ \E r \in Pendings : Quiet /\ DeleteFinish(r)

\* the values the clients send with a request
LoginEmails == Emails \cup {""}
LoginPasswords == RoutePasswords \cup {<<>>}
RegNames == Names \cup {""}
RegPasswords == NewPasswords \cup {<<>>}

\* The whole server: requests interleave at their awaits.
Next ==
    \/ \E sid \in Cookies, email \in LoginEmails, pw \in LoginPasswords :
            Quiet /\ Login(sid, email, pw)
    \/ \E sid \in Cookies, name \in RegNames, email \in LoginEmails,
          pw \in RegPasswords, saltBuf \in RouteSalts :
            Quiet /\ RegisterStart(sid, name, email, pw, saltBuf)
    \/ \E sid \in Cookies, token \in Tokens : Quiet /\ GoogleStart(sid, token)
    \/ \E sid \in Cookies : Quiet /\ Logout(sid)
    \/ \E sid \in Cookies : Quiet /\ GetUser(sid)
    \/ AuthResume
    \/ \E sid \in Cookies : Quiet /\ GetTodos(sid)
    \/ \E sid \in Cookies, body \in TodoBodies : Quiet /\ PostTodo(sid, body)
    \/ \E sid \in Cookies, id \in TodoIds, updates \in Patches :
            Quiet /\ PatchStart(sid, id, updates)
    \/ \E sid \in Cookies, id \in TodoIds : Quiet /\ DeleteStart(sid, id)
    \/ TodoResume
    \/ \E u \in users : Quiet /\ DeleteUserRow(u)
    \/ Idle /\ Tick
    \/ Deliver

Spec == Init /\ [][Next]_vars

\* The identity subsystem, one request at a time.
NextAuth ==
    \/ \E sid \in Cookies, email \in LoginEmails, pw \in LoginPasswords :
            Idle /\ Login(sid, email, pw)
    \/ \E sid \in Cookies, name \in RegNames, email \in LoginEmails,
          pw \in RegPasswords, saltBuf \in RouteSalts :
            Idle /\ RegisterStart(sid, name, email, pw, saltBuf)
    \/ \E sid \in Cookies, token \in Tokens : Idle /\ GoogleStart(sid, token)
    \/ \E sid \in Cookies : Idle /\ Logout(sid)
    \/ \E sid \in Cookies : Idle /\ GetUser(sid)
    \/ AuthResume
    \/ \E u \in users : Idle /\ DeleteUserRow(u)
    \/ Deliver

SpecAuth == Init /\ [][NextAuth]_vars

\* Two users, one registered with a password and one created by Google
\* sign-in, each holding the session its sign-up issued.
InitTasks ==
    /\ users = {UserRow(1, "A", "a@x", hashPassword(<<"p">>, CHOOSE s \in Salts : TRUE),
                        NULL, NULL, 1),
                UserRow(2, "Google User", "b@x", <<>>, "g1", "google", 2)}
    /\ todos = {}
    /\ sessions = (1 :> 1) @@ (2 :> 2)
    /\ nextUserId = 3
    /\ nextTodoId = 1
    /\ nextSid = 3
    /\ clock = 3
    /\ inflight = EmptyBag
    /\ resp = NoResp
    /\ loggedOut = {}
    /\ hv = NoHash
    /\ now = 0
    /\ life = [s \in {1, 2} |-> [issued |-> 0, expire |-> MaxAge]]

\* The todo routes, one request at a time, with sessions ending and user rows
\* going away.
NextTasks ==
    \/ \E sid \in Cookies : Idle /\ GetTodos(sid)
    \/ \E sid \in Cookies, body \in TodoBodies : Idle /\ PostTodo(sid, body)
    \/ \E sid \in Cookies, id \in TodoIds, updates \in Patches :
            Idle /\ PatchStart(sid, id, updates)
    \/ \E sid \in Cookies, id \in TodoIds : Idle /\ DeleteStart(sid, id)
    \/ TodoResume
    \/ \E sid \in Cookies : Idle /\ Logout(sid)
    \/ \E sid \in Cookies : Idle /\ GetUser(sid)
    \/ \E u \in users : Idle /\ DeleteUserRow(u)
    \/ Deliver

SpecTasks == InitTasks /\ [][NextTasks]_vars

\* The todo routes with requests interleaving at the awaits of updateTodo and
\* deleteTodo.
RaceBodies ==
    {b \in TodoBodies : b.name = "t" /\ ParseOk(b) /\ b.completed = NULL
                           /\ b.userId = NULL}

RacePatches == {p \in Patches : DOMAIN p \subseteq {"completed", "userId"}}

NextTaskRace ==
    \/ \E sid \in DOMAIN sessions, body \in RaceBodies : Quiet /\ PostTodo(sid, body)
    \/ \E sid \in DOMAIN sessions, id \in TodoIds, updates \in RacePatches :
            Quiet /\ PatchStart(sid, id, updates)
    \/ \E sid \in DOMAIN sessions, id \in TodoIds : Quiet /\ DeleteStart(sid, id)
    \/ TodoResume
    \/ Deliver

SpecTaskRace == InitTasks /\ [][NextTaskRace]_vars

\* Requests of the two users of InitTasks with user lookups that may fail.
NextOutage ==
    \/ \E sid \in Cookies : Idle /\ GetUser(sid)
    \/ \E sid \in Cookies : Idle /\ GetTodos(sid)
    \/ \E sid \in Cookies, body \in RaceBodies : Idle /\ PostTodo(sid, body)
    \/ \E sid \in Cookies : Idle /\ GetUserLookupFails(sid)
    \/ \E sid \in Cookies : Idle /\ GetTodosLookupFails(sid)
    \/ Deliver

SpecOutage == InitTasks /\ [][NextOutage]_vars

\* The todo functions of the storage called directly, one call at a time, for
\* the two users of InitTasks, with empty and with unknown arguments.
NextStorage ==
    \/ \E userId \in 0..MaxUsers : Idle /\ CallGetUserTodos(userId)
    \/ \E body \in RaceBodies, userId \in 0..MaxUsers :
            Idle /\ CallCreateTodo(insertTodoSchema(body), userId)
    \/ \E id \in 0..MaxTodos, userId \in 0..MaxUsers, updates \in RacePatches :
            Idle /\ updateTodo(id, userId, updates)
    \/ \E id \in 0..MaxTodos, userId \in 0..MaxUsers :
            Idle /\ deleteTodo(id, userId)
    \/ Deliver

SpecStorage == InitTasks /\ [][NextStorage]_vars

\* Sessions over time: the two users of InitTasks use their sessions, sign in
\* again and sign out while time passes.
NextExpiry ==
    \/ \E sid \in Cookies : Idle /\ GetUser(sid)
    \/ \E sid \in Cookies : Idle /\ GetTodos(sid)
    \/ \E sid \in Cookies, email \in LoginEmails, pw \in LoginPasswords :
            Idle /\ Login(sid, email, pw)
    \/ \E sid \in Cookies : Idle /\ Logout(sid)
    \/ Idle /\ Tick
    \/ Deliver

SpecExpiry == InitTasks /\ [][NextExpiry]_vars

\* Registrations and Google sign-ins of clients without a session, interleaving
\* at their awaits, with user rows going away in between.
NextRace ==
    \/ \E name \in Names, email \in Emails, pw \in NewPasswords, saltBuf \in RouteSalts :
            Quiet /\ RegisterStart(NoSid, name, email, pw, saltBuf)
    \/ \E token \in Tokens : Quiet /\ GoogleStart(NoSid, token)
    \/ AuthResume
    \/ \E u \in users : Quiet /\ DeleteUserRow(u)
    \/ Deliver

SpecRace == Init /\ [][NextRace]_vars

-----------------------------------------------------------------------------
(* The credential verifier on its own: hashPassword, then comparePasswords *)

InitHash ==
    /\ users = {}
    /\ todos = {}
    /\ sessions = << >>
    /\ nextUserId = 1
    /\ nextTodoId = 1
    /\ nextSid = 1
    /\ clock = 1
    /\ inflight = EmptyBag
    /\ resp = NoResp
    /\ loggedOut = {}
    /\ hv \in [pc : {"start"}, password : Passwords, saltBuf : Salts,
               supplied : Passwords \cup {<<>>}, stored : {<<>>},
               threw : {FALSE}, value : {FALSE}]
    /\ now = 0
    /\ life = << >>

\* stored = await hashPassword(password)
HashStep ==
    /\ hv.pc = "start"
    /\ hv' = [hv EXCEPT !.pc = "hashed",
                        !.stored = hashPassword(hv.password, hv.saltBuf)]
    /\ UNCHANGED <<users, todos, sessions, nextUserId, nextTodoId, nextSid, clock,
                   inflight, resp, loggedOut,
                   now, life>>

\* await comparePasswords(supplied, stored)
CompareStep ==
    /\ hv.pc = "hashed"
    /\ hv' = [hv EXCEPT !.pc = "done",
                        !.threw = comparePasswords(hv.supplied, hv.stored).threw,
                        !.value = comparePasswords(hv.supplied, hv.stored).value]
    /\ UNCHANGED <<users, todos, sessions, nextUserId, nextTodoId, nextSid, clock,
                   inflight, resp, loggedOut,
                   now, life>>

NextHash == HashStep \/ CompareStep

SpecHash == InitHash /\ [][NextHash]_vars

-----------------------------------------------------------------------------
(* Properties *)

TodoRoutes == {"list", "create", "patch", "delete"}

\* C1: a PATCH or DELETE of a task answered for an acting user who is not the
\* task's owner is answered 404, and the task table is what it was.
C1_ForeignUpdateDeleteRefused ==
    [][\A t \in todos :
          (/\ resp = NoResp /\ resp' # NoResp
           /\ resp'.route \in {"patch", "delete"}
           /\ resp'.id = t.id
           /\ resp'.actor # NoUser
           /\ resp'.actor # t.userId)
          => (resp'.status = 404 /\ todos' = todos)]_vars

\* a 404 was answered to a user's PATCH of a task that exists and is another user's
C1_Witness ==
    /\ resp.route = "patch" /\ resp.status = 404 /\ resp.actor # NoUser
    /\ \E t \in todos : t.id = resp.id /\ t.userId # resp.actor

\* C2: the owner of a task never changes, whatever the bodies of the requests
\* carry (task ids are never reused).
C2_OwnerNeverChanges ==
    [][\A t \in todos : \A n \in todos' : n.id = t.id => n.userId = t.userId]_vars

\* C3: GET /api/todos answers 200 exactly when the presented session names an
\* existing user, and then with exactly the tasks whose owner is that user;
\* otherwise it answers 401.
C3_ListIsExactlyOwn ==
    resp.route = "list" =>
        \/ /\ resp.status = 200
           /\ resp.sid \in DOMAIN sessions
           /\ sessions[resp.sid] = resp.actor
           /\ \E u \in users : u.id = resp.actor
           /\ resp.rows = {t \in todos : t.userId = resp.actor}
        \/ /\ resp.status = 401
           /\ resp.rows = {}
           /\ ~(resp.sid \in DOMAIN sessions
                /\ \E u \in users : u.id = sessions[resp.sid])

\* a list was answered with tasks while another user's task is stored
C3_Witness ==
    /\ resp.route = "list" /\ resp.status = 200 /\ resp.rows # {}
    /\ \E t \in todos : t.userId # resp.actor

\* C4: a request to a todo route whose session names no existing user is
\* answered 401 at once and leaves the task table alone; only requests whose
\* session names an existing user ever get as far as the task store.
C4_GateBeforeStore ==
    [][/\ (/\ resp = NoResp /\ resp' # NoResp /\ inflight = EmptyBag
           /\ resp'.route \in TodoRoutes
           /\ ~(resp'.sid \in DOMAIN sessions
                /\ \E u \in users : u.id = sessions[resp'.sid]))
          => (resp'.status = 401 /\ resp'.rows = {} /\ todos' = todos)
       /\ \A r \in BagToSet(inflight') :
            (~BagIn(r, inflight) /\ r.kind \in {"patch", "delete"})
            => /\ r.sid \in DOMAIN sessions
               /\ sessions[r.sid] = r.actor
               /\ \E u \in users : u.id = r.actor]_vars

\* a todo route answered 401 to a request that presented a session id, tasks
\* being stored
C4_Witness ==
    /\ resp.route \in TodoRoutes /\ resp.status = 401 /\ resp.sid # NoSid
    /\ todos # {}

\* C5: no two user rows have the same email.
C5_EmailUnique ==
    \A u1 \in users : \A u2 \in users : u1.email = u2.email => u1 = u2

\* a registration that passed the lookup lost the race for its email
C5_Witness ==
    /\ resp.route = "register" /\ resp.status = 500
    /\ resp.msg = "duplicate key value violates unique constraint"
    /\ users # {}

\* C6: a registration whose email is registered when the request comes in is
\* answered 400 "Email already exists", inserts no user, issues no session and
\* leaves every user row as it was.
C6_DuplicateEmailRefused ==
    [][\A sid \in Cookies, name \in Names, email \in Emails, pw \in NewPasswords,
          saltBuf \in RouteSalts :
            (/\ \E u \in users : u.email = email
             /\ RegisterStart(sid, name, email, pw, saltBuf))
            => /\ resp'.route = "register"
               /\ resp'.status = 400
               /\ resp'.msg = "Email already exists"
               /\ resp'.cookie = NoSid
               /\ users' = users
               /\ nextSid' = nextSid
               /\ \A s \in DOMAIN sessions' :
                    s \in DOMAIN sessions /\ sessions'[s] \in {sessions[s], NoUser}
               /\ inflight' = inflight]_vars

\* a registration was refused for its email while a user holds an email
C6_Witness ==
    /\ resp.route = "register" /\ resp.status = 400
    /\ resp.msg = "Email already exists"
    /\ users # {}

\* C7: no two user rows carry the same Google subject id.
C7_ExternalIdUnique ==
    \A u1 \in users : \A u2 \in users :
        (u1.googleId # NULL /\ u1.googleId = u2.googleId) => u1 = u2

\* C8: every login that does not succeed is answered 401 "Invalid credentials".
C8_LoginFailureUniform ==
    (resp.route = "login" /\ resp.status # 200)
    => (resp.status = 401 /\ resp.msg = "Invalid credentials")

\* C9: comparing a supplied password with the hash of a password never fails
\* and is true exactly when the two passwords are the same.
C9_HashVerifyRoundTrip ==
    hv.pc = "done" => (~hv.threw /\ (hv.value <=> hv.supplied = hv.password))

\* the password itself was compared with its hash
C9_Witness == hv.pc = "done" /\ hv.value /\ hv.supplied = hv.password

\* C10: a session id presented to a completed logout names no user from then
\* on, and GET /api/user and the todo routes answer 401 to it.
C10_LoggedOutStaysOut ==
    /\ \A s \in loggedOut : ~(s \in DOMAIN sessions /\ sessions[s] # NoUser)
    /\ (resp.sid \in loggedOut /\ resp.route \in {"user"} \cup TodoRoutes)
       => resp.status = 401

\* GET /api/user answered 401 to a session id that was logged out
C10_Witness ==
    resp.route = "user" /\ resp.status = 401 /\ resp.sid \in loggedOut

\* C11: a request presenting a session bound to a user id that no user row
\* carries is answered as unauthenticated (401 on GET /api/user and on the todo
\* routes), and when it is answered the session is no longer bound to that id.
C11_StaleSessionHealed ==
    [][\A s \in DOMAIN sessions :
          (/\ resp = NoResp /\ resp' # NoResp
           /\ resp'.sid = s
           /\ sessions[s] # NoUser
           /\ ~\E u \in users : u.id = sessions[s])
          => /\ resp'.route \in {"user"} \cup TodoRoutes
                  => (resp'.status = 401 /\ resp'.actor = NoUser)
             /\ ~(s \in DOMAIN sessions' /\ sessions'[s] # NoUser)]_vars

\* a todo route answered 401 to a session that was not logged out, whose record
\* is gone, the user it was issued to being gone as well
C11_Witness ==
    /\ resp.route \in TodoRoutes /\ resp.status = 401
    /\ resp.sid # NoSid /\ resp.sid \notin loggedOut
    /\ resp.sid \notin DOMAIN sessions

\* the routes that sign a user in, and the statuses of their success
SignInRoutes == {"register", "login", "google"}
SignedIn(r) == r.route \in SignInRoutes /\ r.status \in {200, 201}

\* C12: a session gets bound to a user only by a successful register, login or
\* Google exchange answered for that user; a bound session loses its binding
\* only by logout, by the detection that its user is gone, or by being replaced
\* at a successful sign-in of its client; a failed register, login or Google
\* exchange issues no session.
C12_SessionStateMachine ==
    [][/\ \A s \in DOMAIN sessions' :
            (/\ sessions'[s] # NoUser
             /\ ~(s \in DOMAIN sessions /\ sessions[s] = sessions'[s]))
            => /\ SignedIn(resp')
               /\ resp'.cookie = s
               /\ resp'.actor = sessions'[s]
               /\ \E u \in users' : u.id = sessions'[s]
       /\ \A s \in DOMAIN sessions :
            (/\ sessions[s] # NoUser
             /\ ~(s \in DOMAIN sessions' /\ sessions'[s] = sessions[s]))
            => \/ resp'.route = "logout" /\ resp'.sid = s
               \/ ~\E u \in users : u.id = sessions[s]
               \/ /\ SignedIn(resp') /\ resp'.sid = s
                  /\ resp'.cookie \in DOMAIN sessions'
                  /\ sessions'[resp'.cookie] = resp'.actor
       /\ (/\ resp = NoResp /\ resp' # NoResp
           /\ resp'.route \in SignInRoutes /\ ~SignedIn(resp'))
          => /\ resp'.cookie = NoSid
             /\ nextSid' = nextSid
             /\ DOMAIN sessions' \subseteq DOMAIN sessions]_vars

\* a login was refused to a client whose session is bound to an existing user,
\* and the session is still bound to that user
C12_Witness ==
    /\ resp.route = "login" /\ resp.status = 401
    /\ resp.sid \in DOMAIN sessions
    /\ \E u \in users : u.id = sessions[resp.sid]

\* C13: when a register, login or Google exchange is answered with success, the
\* session of the cookie it sets is bound to the user of the response body, and
\* GET /api/user with that cookie finds that user.
C13_SignInBindsSession ==
    SignedIn(resp) =>
        /\ resp.cookie \in DOMAIN sessions
        /\ resp.user # {}
        /\ \A u \in resp.user : sessions[resp.cookie] = u.id /\ resp.actor = u.id
        /\ isAuthenticated(resp.cookie)
        /\ getUser(Deserialize(resp.cookie)) = resp.user

\* a Google exchange was answered with success while two users and another
\* session are stored
C13_Witness ==
    /\ resp.route = "google" /\ resp.status = 200
    /\ Cardinality(users) > 1
    /\ \E s \in DOMAIN sessions : s # resp.cookie

\* the Google exchanges whose createOrUpdateGoogleUser returns in this step
GoogleReturns(r) ==
    /\ r.kind \in {"googleInsert", "googleUpdate"}
    /\ BagIn(r, inflight) /\ ~BagIn(r, inflight')
    /\ resp'.route = "google" /\ resp'.status = 200

\* C14: createOrUpdateGoogleUser(email, sub) leaves exactly one row with that
\* email, carrying sub and provider "google", and returns it; called in the
\* state such a call leaves (the row of the email already carries sub and
\* "google") it changes no row and returns that same row.
C14_LinkOrCreateIdempotent ==
    [][\A r \in BagToSet(inflight) :
          GoogleReturns(r) =>
            LET before == {u \in users : u.email = r.email}
                after  == {u \in users' : u.email = r.email}
            IN /\ Cardinality(after) = 1
               /\ resp'.user = after
               /\ \A u \in after : u.googleId = r.sub /\ u.provider = "google"
               /\ (\E u \in before : u.googleId = r.sub /\ u.provider = "google")
                  => (users' = users /\ after = before)]_vars

\* a Google exchange returned a row that an earlier Google exchange had
\* inserted: two sessions are bound to the user, whose password is empty
C14_Witness ==
    /\ resp.route = "google" /\ resp.status = 200
    /\ \A u \in resp.user : u.password = <<>> /\ u.provider = "google"
    /\ \E s \in DOMAIN sessions : s # resp.cookie /\ sessions[s] = resp.actor

\* C15: when createOrUpdateGoogleUser finds a user with the email, that user
\* keeps its id, name, email, password and createdAt, every other user row is
\* what it was, and no row is added.
C15_LinkTouchesOnlyExternalId ==
    [][\A r \in BagToSet(inflight) :
          (GoogleReturns(r) /\ \E u \in users : u.email = r.email)
          => /\ \A u \in users :
                    IF u.email = r.email
                    THEN \E n \in users' :
                            /\ n.id = u.id /\ n.name = u.name /\ n.email = u.email
                            /\ n.password = u.password /\ n.createdAt = u.createdAt
                    ELSE u \in users'
             /\ Cardinality(users') = Cardinality(users)
             /\ nextUserId' = nextUserId]_vars

\* a Google exchange returned a user who has a password, another user being
\* stored
C15_Witness ==
    /\ resp.route = "google" /\ resp.status = 200
    /\ \A u \in resp.user : u.password # <<>> /\ u.googleId # NULL
    /\ \E u \in users : u \notin resp.user

\* C16: every user row whose provider is not "google" has a stored password
\* that is not empty and has a non-empty salt after its "."
C16_LocalUserHasSaltedHash ==
    \A u \in users :
        u.provider # "google"
        => /\ u.password # <<>>
           /\ Includes(u.password, ".")
           /\ Split(u.password, ".")[1] # <<>>
           /\ Split(u.password, ".")[2] # <<>>

\* a registered user who was never linked is stored next to a Google user
C16_Witness ==
    /\ \E u \in users : u.provider # "google"
    /\ \E u \in users : u.provider = "google"

\* C17: a Google exchange whose token fails verifyIdToken is answered 401,
\* changes no user row and issues no session.
C17_VerifyFailureIs401 ==
    [][\A sid \in Cookies, token \in Tokens :
          (token.kind = "forged" /\ GoogleStart(sid, token))
          => /\ resp'.route = "google"
             /\ resp'.status = 401
             /\ resp'.cookie = NoSid
             /\ users' = users
             /\ nextSid' = nextSid
             /\ inflight' = inflight]_vars

\* C18: POST /api/todos of a signed-in user whose body lacks name, date or
\* time is answered 400 and stores nothing; with all three it is answered 201
\* and stores exactly one new task, owned by the session's user, not completed,
\* with the name, date and time of the body.
C18_CreateValidates ==
    [][\A sid \in Cookies, body \in TodoBodies :
          (/\ sid \in DOMAIN sessions
           /\ \E u \in users : u.id = sessions[sid]
           /\ PostTodo(sid, body))
          => IF body.name = NULL \/ body.date = NULL \/ body.time = NULL
             THEN resp'.status = 400 /\ todos' = todos
             ELSE /\ resp'.status = 201
                  /\ \E t \in todos' :
                        /\ \A o \in todos : o.id # t.id
                        /\ todos' = todos \cup {t}
                        /\ resp'.rows = {t}
                        /\ t.userId = sessions[sid]
                        /\ t.completed = FALSE
                        /\ t.name = body.name /\ t.date = body.date
                        /\ t.time = body.time]_vars

\* a task was created while another task is stored
C18_Witness ==
    /\ resp.route = "create" /\ resp.status = 201
    /\ \A t \in resp.rows : t.completed = FALSE /\ t.userId = resp.actor
    /\ \E t \in todos : t \notin resp.rows

\* C19: no stored task has the empty string as its name.
C19_TitleNonEmpty == \A t \in todos : t.name # ""

\* what the client sees of a response
ClientView(r) ==
    [status |-> r.status, rows |-> r.rows, user |-> r.user, msg |-> r.msg,
     cookie |-> r.cookie]

\* C20: a PATCH or DELETE of a signed-in user for a task id that no task of
\* theirs carries gets one and the same response, 404 "Todo not found",
\* whether no task has the id or another user's task has it.
C20_NotFoundIndistinguishable ==
    [][(/\ resp = NoResp /\ resp' # NoResp
        /\ resp'.route \in {"patch", "delete"}
        /\ resp'.actor # NoUser
        /\ ~\E t \in todos : t.id = resp'.id /\ t.userId = resp'.actor)
       => ClientView(resp') =
            [status |-> 404, rows |-> {}, user |-> {}, msg |-> "Todo not found",
             cookie |-> NoSid]]_vars

\* a DELETE for an id that no task carries was answered 404 while another
\* user's task is stored
C20_Witness ==
    /\ resp.route = "delete" /\ resp.status = 404 /\ resp.actor # NoUser
    /\ ~\E t \in todos : t.id = resp.id
    /\ \E t \in todos : t.userId # resp.actor

\* C21: POST /api/logout presenting no session, or a session id whose record
\* is gone, is answered 200 and leaves the user rows, the tasks and the
\* sessions of the store as they were.
C21_LogoutIdempotent ==
    [][\A sid \in Cookies :
          (sid \notin DOMAIN sessions /\ Logout(sid))
          => /\ resp'.route = "logout" /\ resp'.status = 200
             /\ users' = users
             /\ todos' = todos
             /\ sessions' = sessions]_vars

\* a logout was answered 200 to a session id that had been logged out before,
\* every user ever created being stored and another session being bound
C21_Witness ==
    /\ resp.route = "logout" /\ resp.status = 200
    /\ resp.sid # NoSid /\ resp.actor = NoUser
    /\ \A i \in 1..(nextUserId - 1) : \E u \in users : u.id = i
    /\ \E s \in DOMAIN sessions : sessions[s] # NoUser

\* C22: a request that presents a session id later than cookie.maxAge after the
\* session was issued is answered as unauthenticated by GET /api/user and the
\* todo routes, however often the session was used in between.
C22_AbsoluteLifetime ==
    (/\ resp.route \in {"user"} \cup TodoRoutes
     /\ resp.sid \in DOMAIN life
     /\ now > life[resp.sid].issued + MaxAge)
    => resp.status = 401

\* the messages of a 500 that say nothing of the error behind it
GenericMessages ==
    {"Internal server error", "Google authentication failed",
     "Failed to fetch todos", "Failed to create todo", "Failed to update todo",
     "Failed to delete todo"}

\* C23: the body of every 500 carries a generic message, never the message of
\* the error that caused it.
C23_InternalFailureGeneric == resp.status = 500 => resp.msg \in GenericMessages

\* C24: a login with the email and the password a stored user registered with
\* is answered 200 with that user, and the session of the cookie it sets is
\* bound to that user.
C24_RegisterThenLogin ==
    [][\A sid \in Cookies, email \in Emails, pw \in RoutePasswords :
          \A u \in users :
            (/\ resp = NoResp /\ resp'.route = "login"
             /\ u.email = email
             /\ u.password # <<>>
             /\ \E saltBuf \in RouteSalts : u.password = hashPassword(pw, saltBuf)
             /\ Login(sid, email, pw))
            => /\ resp'.route = "login" /\ resp'.status = 200
               /\ resp'.user = {u}
               /\ resp'.cookie \in DOMAIN sessions'
               /\ sessions'[resp'.cookie] = u.id]_vars

\* a login was answered 200 with a user who has a password, by a session id
\* other than the one registration issued first
C24_Witness ==
    /\ resp.route = "login" /\ resp.status = 200
    /\ \A u \in resp.user : u.password # <<>>
    /\ resp.cookie > 1

\* the suspended requests that go on in this step
Resumed(r) == CopiesIn(r, inflight') < CopiesIn(r, inflight)

\* C25: whatever the interleaving, a row that the update or the delete of a
\* request changes or removes has the request's id and, at that moment, the
\* acting user as its owner.
C25_MutationWithinOwnership ==
    [][\A r \in BagToSet(inflight) :
          (r.kind \in {"patch", "delete"} /\ Resumed(r))
          => \A t \in todos \ todos' : t.id = r.id /\ t.userId = r.actor]_vars

\* a PATCH has just handed a task to another user while a request of the
\* former owner for the same task, past its existence check, waits to mutate
C25_Witness ==
    /\ resp.route = "patch" /\ resp.status = 200
    /\ \E t \in resp.rows : t \in todos /\ t.userId # resp.actor
    /\ \E r \in BagToSet(inflight) :
            r.kind \in {"patch", "delete"} /\ r.id = resp.id /\ r.actor = resp.actor

\* C26: a registration that passed the email lookup and finds the email taken
\* when it inserts is answered 400 "Email already exists"; one that finds it
\* free is answered 201.
C26_RegisterRaceRefused ==
    [][\A r \in BagToSet(inflight) :
          (r.kind = "register" /\ Resumed(r))
          => IF \E u \in users : u.email = r.email
             THEN /\ resp'.status = 400 /\ resp'.msg = "Email already exists"
                  /\ users' = users
             ELSE resp'.status = 201]_vars

\* C27: a Google exchange that found its email new, and inserts after another
\* exchange with the same email and subject id inserted the user, is answered
\* 200 with that user, and no row is added.
C27_GoogleRaceBothSucceed ==
    [][\A r \in BagToSet(inflight) :
          (r.kind = "googleInsert" /\ Resumed(r))
          => \A u \in users :
                (u.email = r.email /\ u.googleId = r.sub)
                => /\ resp'.status = 200
                   /\ resp'.user = {u}
                   /\ users' = users]_vars

\* C28: a DELETE of the owner that passed the existence check answers 204 and
\* removes the task when the task is still stored, and answers 404 and removes
\* nothing when a concurrent DELETE has removed it.
C28_ConcurrentDeleteOnce ==
    [][\A r \in BagToSet(inflight) :
          (r.kind = "delete" /\ Resumed(r))
          => LET own == {t \in todos : t.id = r.id /\ t.userId = r.actor}
             IN IF own # {}
                THEN /\ resp'.status = 204
                     /\ Cardinality(own) = 1
                     /\ todos' = todos \ own
                ELSE resp'.status = 404 /\ todos' = todos]_vars

\* a DELETE has just removed a task while another DELETE of the same user for
\* the same id, past its existence check, waits to delete
C28_Witness ==
    /\ resp.route = "delete" /\ resp.status = 204
    /\ ~\E t \in todos : t.id = resp.id
    /\ \E r \in BagToSet(inflight) :
            r.kind = "delete" /\ r.id = resp.id /\ r.actor = resp.actor

\* C29: a PATCH answered 200 replaces one task of the acting user by a task
\* that has the patch's value in every column the patch names and the old
\* value in every other column, returns the stored task and leaves every
\* other task as it was.
C29_PatchAppliesOnlyPatchFields ==
    [][\A r \in BagToSet(inflight) :
          (r.kind = "patch" /\ Resumed(r) /\ resp'.status = 200)
          => \E old \in todos, new \in todos' :
                /\ old.id = r.id /\ old.userId = r.actor
                /\ todos' = (todos \ {old}) \cup {new}
                /\ resp'.rows = {new}
                /\ \A c \in TodoCols :
                      new[c] = IF c \in DOMAIN r.patch THEN r.patch[c] ELSE old[c]]_vars

\* a PATCH returned a task that keeps the value of an earlier PATCH in a
\* column it does not name, another task being stored
C29_Witness ==
    /\ resp.route = "patch" /\ resp.status = 200
    /\ \E t \in resp.rows : t.completed /\ t.name = "" /\ t \in todos
    /\ Cardinality(todos) > 1

\* C30: no PATCH changes the id or the createdAt of a stored task: every task
\* stored before the answer is stored after it under the same id with the
\* same createdAt.
C30_IdAndCreatedAtImmutable ==
    [][(resp = NoResp /\ resp' # NoResp /\ resp'.route = "patch")
       => \A t \in todos :
             \E n \in todos' : n.id = t.id /\ n.createdAt = t.createdAt]_vars

\* C31: a PATCH of the owner whose body sets a required column to null is
\* answered 400 and leaves the tasks as they were.
C31_PatchValidates ==
    [][\A r \in BagToSet(inflight) :
          (/\ r.kind = "patch" /\ Resumed(r)
           /\ \E t \in todos : t.id = r.id /\ t.userId = r.actor
           /\ \E c \in DOMAIN r.patch \cap {"name", "date", "time"} :
                    r.patch[c] = NULL)
          => (resp'.status = 400 /\ todos' = todos)]_vars

\* C32: a request presenting a session bound to an existing user is not
\* answered as unauthenticated, and its session stays bound to that user, also
\* when the lookup of the user fails.
C32_LookupFailureKeepsSession ==
    [][\A s \in DOMAIN sessions :
          (/\ resp = NoResp /\ resp' # NoResp
           /\ resp'.sid = s
           /\ resp'.route \in {"user"} \cup TodoRoutes
           /\ \E u \in users : u.id = sessions[s])
          => /\ resp'.status # 401
             /\ s \in DOMAIN sessions'
             /\ sessions'[s] = sessions[s]]_vars

\* C33: the owner of every stored task is the id of a stored user.
C33_NoDanglingOwner == \A t \in todos : \E u \in users : u.id = t.userId

\* a user row was removed and tasks are still stored
C33_Witness ==
    /\ todos # {}
    /\ \E i \in 1..(nextUserId - 1) : ~\E u \in users : u.id = i

\* C34: a request of the identity routes leaves every stored user row as it
\* was, except that a successful Google exchange may change the row of its
\* email; no request changes the id or the createdAt of a stored user.
C34_UsersOnlyChangedByLink ==
    [][(resp = NoResp /\ resp' # NoResp)
       => \A u \in users :
             \E n \in users' :
                /\ n.id = u.id /\ n.createdAt = u.createdAt
                /\ n # u => /\ resp'.route = "google" /\ resp'.status = 200
                            /\ resp'.user = {n}
                            /\ n.email = u.email]_vars

\* a registration was answered 201 while a user with another email is stored
C34_Witness ==
    /\ resp.route = "register" /\ resp.status = 201
    /\ \E u \in users : u \notin resp.user

\* C35: a Google exchange whose body has no token, or whose verified token
\* lacks the email or the subject id, is answered 400; it creates and changes
\* no user, starts no storage call and establishes no session.
C35_BadTokenRejected ==
    [][\A sid \in Cookies, token \in Tokens :
          (/\ \/ token.kind = "missing"
              \/ token.kind = "signed" /\ (token.email = NULL \/ token.sub = NULL)
           /\ GoogleStart(sid, token))
          => /\ resp'.route = "google" /\ resp'.status = 400
             /\ resp'.cookie = NoSid /\ resp'.user = {}
             /\ users' = users /\ nextUserId' = nextUserId
             /\ inflight' = inflight /\ nextSid' = nextSid
             /\ DOMAIN sessions' \subseteq DOMAIN sessions
             /\ \A s \in DOMAIN sessions' : sessions'[s] \in {sessions[s], NoUser}]_vars

\* a verified token without email or subject id was answered 400 while users
\* are stored
C35_Witness ==
    /\ resp.route = "google" /\ resp.status = 400
    /\ resp.msg = "Invalid token" /\ users # {}

\* stored values without an embedded salt: empty, and without a separator
Saltless == {<<>>, <<"a">>, <<"a", "b">>}

\* C36: comparePasswords rejects with an error, and does not resolve to
\* false, for every stored value that is empty or has no "." in it; a login
\* with both credentials present for an account with such a stored value gets
\* that error: it is answered 500 with the error's message and binds no
\* session.
C36_MalformedHashIsError ==
    [][/\ \A stored \in Saltless, supplied \in Passwords :
             comparePasswords(supplied, stored).threw
       /\ \A sid \in Cookies, email \in LoginEmails, pw \in LoginPasswords :
             (/\ email # "" /\ pw # <<>>
              /\ \E u \in users :
                    u.email = email /\ (u.password = <<>> \/ ~Includes(u.password, "."))
              /\ Login(sid, email, pw))
             => /\ \A u \in getUserByEmail(email) :
                      /\ comparePasswords(pw, u.password).threw
                      /\ resp'.msg = comparePasswords(pw, u.password).msg
                /\ resp'.route = "login" /\ resp'.status = 500
                /\ resp'.cookie = NoSid /\ nextSid' = nextSid]_vars

\* a login was answered with the error of the comparison
C36_Witness ==
    /\ resp.route = "login" /\ resp.status = 500
    /\ resp.msg = "Stored password missing salt"

\* C37: when a Google exchange with a verified email and subject id is
\* answered 200, exactly one stored user has that email, and that user has the
\* subject id of the token as googleId and "google" as provider, whether the
\* row was inserted by the exchange or was already stored, with or without
\* another googleId.
C37_ExchangeSetsIdentity ==
    [][\A r \in BagToSet(inflight) :
          (/\ r.kind \in {"googleInsert", "googleUpdate"}
           /\ Resumed(r)
           /\ resp'.route = "google" /\ resp'.status = 200)
          => /\ Cardinality({u \in users' : u.email = r.email}) = 1
             /\ \A u \in users' :
                   u.email = r.email => u.googleId = r.sub /\ u.provider = "google"]_vars

\* an exchange replaced the googleId of a stored user by another one
C37_Witness ==
    /\ resp.route = "google" /\ resp.status = 200
    /\ \E u \in resp.user, s \in DOMAIN sessions :
          /\ u \in users /\ u.googleId = "g2" /\ u.password = <<>>
          /\ s # resp.cookie /\ sessions[s] = u.id

\* C38: a user whose stored password is empty is never the user a login is
\* answered 200 for, whatever password is supplied, the empty one included;
\* no request gives such a user a password, and a registration with its email
\* is answered 400 and starts no insert.
C38_GoogleOnlyNeverPasswordLogin ==
    [][/\ \A sid \in Cookies, email \in LoginEmails, pw \in LoginPasswords :
             (/\ \E u \in users : u.email = email /\ u.password = <<>>
              /\ Login(sid, email, pw))
             => /\ resp'.status # 200 /\ resp'.cookie = NoSid
                /\ nextSid' = nextSid
                /\ DOMAIN sessions' \subseteq DOMAIN sessions
                /\ \A s \in DOMAIN sessions' : sessions'[s] \in {sessions[s], NoUser}
       /\ \A u \in users :
             u.password = <<>> => \A n \in users' : n.id = u.id => n.password = <<>>
       /\ \A sid \in Cookies, name \in RegNames, email \in LoginEmails,
             pw \in RegPasswords, saltBuf \in RouteSalts :
             (/\ \E u \in users : u.email = email /\ u.password = <<>>
              /\ RegisterStart(sid, name, email, pw, saltBuf))
             => /\ resp'.route = "register" /\ resp'.status = 400
                /\ inflight' = inflight /\ users' = users]_vars

\* a registration was refused as a duplicate of an account without password
C38_Witness ==
    /\ resp.route = "register" /\ resp.status = 400
    /\ resp.msg = "Email already exists"
    /\ users # {} /\ \A u \in users : u.password = <<>>

StorageCalls == {"getUserTodos", "createTodo", "updateTodo", "deleteTodo"}

\* C39: called with an empty id or an empty userId, updateTodo returns no row
\* and deleteTodo reports nothing deleted, each after its warning about the
\* empty argument and before any query; getUserTodos with an empty userId
\* returns no rows after its warning; createTodo with an empty userId throws
\* its own error "Cannot create todo without userId"; none of these calls
\* changes the table of todos.
C39_StorageGuards ==
    [][(/\ resp = NoResp /\ resp' # NoResp /\ resp'.route \in StorageCalls
        /\ \/ resp'.actor = NoUser
           \/ resp'.route \in {"updateTodo", "deleteTodo"} /\ resp'.id = 0)
       => /\ todos' = todos /\ nextTodoId' = nextTodoId
          /\ resp'.rows = {}
          /\ resp'.route = "deleteTodo" => ~Deleted(resp'.rows)
          /\ resp'.msg =
                IF resp'.route = "createTodo"
                THEN "Cannot create todo without userId"
                ELSE IF resp'.route = "getUserTodos"
                THEN "getUserTodos called with empty userId"
                ELSE IF resp'.route = "updateTodo"
                THEN "updateTodo called with empty id or userId"
                ELSE "deleteTodo called with empty id or userId"]_vars

\* updateTodo was called with the id of a stored todo and an empty userId
C39_Witness ==
    /\ resp.route = "updateTodo" /\ resp.actor = NoUser
    /\ \E t \in todos : t.id = resp.id

====
